---- MODULE Spec2Model ----
(***************************************************************************)
(* Model of the K8055 driver session (src/src/lib.rs): discovery, open,    *)
(* the outbound write path with its cached output state, the inbound read  *)
(* path, and the packet codec.  The USB transport is an external           *)
(* collaborator: the outcome of each of its calls is an input of the       *)
(* operation that makes the call.                                          *)
(***************************************************************************)
EXTENDS Integers, Sequences, FiniteSets, TLC

VARIABLES
    created,    \* TRUE once new_addr has returned a K8055 value
    dev,        \* K8055.dev: None or the descriptor of the bound device
    hd,         \* K8055.hd: None or the handle the transport handed out
    state,      \* K8055.state: [dig, ana1, ana2]
    sent,       \* frame of the last outbound transfer that succeeded, <<>> if none
    op          \* the operation just executed: name, arguments, result, transport calls

vars == <<created, dev, hd, state, sent, op>>

----------------------------------------------------------------------------
(* Bounds *)

MaxDevices == 2     \* longest device enumeration handed to new_addr in SpecDiscovery
MaxAttached == 1    \* longest device enumeration handed to new_addr in Spec
MaxSlice == 4       \* longest short slice handed to decode in SpecCodec

----------------------------------------------------------------------------
(* Program constants *)

VENDOR_ID == 4303       \* 0x10cf
CARD_1 == 21760         \* 0x5500
CARD_2 == 21761         \* 0x5501
CARD_3 == 21762         \* 0x5502
CARD_4 == 21763         \* 0x5503
CARD_ANY == 0
DZERO == 0
DALL == 255

None == [none |-> TRUE]

----------------------------------------------------------------------------
(* Input domains *)

DigVals == {1, DALL}
MaskVals == {3, DALL}
AnaVals == {0, 255}
OtherVendor == VENDOR_ID + 1
Addrs == {CARD_1, CARD_2, CARD_3, CARD_4, CARD_ANY}

\* what a device answers to device_descriptor(): a descriptor, or a failure
Descs == [vid : {VENDOR_ID, OtherVendor}, pid : {CARD_1, CARD_2, CARD_4}, descOk : {TRUE}]
           \cup {[vid |-> VENDOR_ID, pid |-> CARD_1, descOk |-> FALSE]}

RECURSIVE SeqsUpTo(_, _)
SeqsUpTo(S, n) ==
    IF n = 0 THEN {<<>>}
    ELSE LET shorter == SeqsUpTo(S, n - 1)
         IN  shorter \cup {Append(s, x) : s \in {t \in shorter : Len(t) = n - 1}, x \in S}

Enumerations == SeqsUpTo(Descs, MaxDevices)

\* the bench of Spec: at most one K8055 card, jumpered as card 1, among
\* devices of other vendors
BenchDescs == {[vid |-> VENDOR_ID, pid |-> CARD_1, descOk |-> TRUE],
               [vid |-> OtherVendor, pid |-> CARD_1, descOk |-> TRUE]}

Attached == SeqsUpTo(BenchDescs, MaxAttached)

\* outcomes of the transport calls made inside one read or write: of
\* kernel_driver_active, detach_kernel_driver, claim_interface and the interrupt
\* transfer.  A call that follows a failed call of the claim step has one
\* outcome listed, since it is the same behaviour whatever it would return.
Outcomes ==
    {t \in [kda : {"true", "false", "err"}, det : {"ok", "err"},
            clm : {"ok", "err"}, xfer : {"ok", "err"}] :
        /\ t.kda = "err" => t.det = "ok"
        /\ (t.kda = "err" \/ t.det = "err") => t.clm = "ok"}

\* status reports the card may deliver, and how many bytes of one arrive
InFrames == {<<3, 1, 100, 255, 9, 9, 9, 9>>, <<255, 0, 0, 100, 0, 0, 0, 0>>}
InLens == {3, 8}

\* slices handed to decode on its own: short ones and full frames
SliceBytes == {0, 7, DALL}
Slices == SeqsUpTo(SliceBytes, MaxSlice) \cup InFrames

----------------------------------------------------------------------------
(* u8 bit operations (bitflags DigitalChannel) *)

RECURSIVE BitAndN(_, _, _)
BitAndN(a, b, n) ==
    IF n = 0 THEN 0
    ELSE (IF a % 2 = 1 /\ b % 2 = 1 THEN 1 ELSE 0) + 2 * BitAndN(a \div 2, b \div 2, n - 1)

BitAnd(a, b) == BitAndN(a, b, 8)

Bit(a, i) == (a \div (2 ^ i)) % 2

\* DigitalChannel::from_bits: Some(b) iff b has no bit outside the defined flags
from_bits(b) == IF BitAnd(b, DALL) = b THEN <<b>> ELSE <<>>

----------------------------------------------------------------------------
(* Results *)

Ok(v) == [tag |-> "Ok", err |-> "none", val |-> v]
Err(e) == [tag |-> "Err", err |-> e, val |-> <<>>]
Unit == <<>>

\* a panic: the call does not return a value
Panic(e) == [tag |-> "Panic", err |-> e, val |-> <<>>]

Call(fn, data, res) == [fn |-> fn, data |-> data, res |-> res]

\* a read_interrupt call: the buffer it leaves, its result and, when it
\* succeeds, the number of bytes it reports as read
ReadCall(data, res, n) == [fn |-> "read_interrupt", data |-> data, res |-> res, n |-> n]

----------------------------------------------------------------------------
(* Packet codec *)

SetAnalogDigital(d, a1, a2) == [kind |-> "SetAnalogDigital", f |-> <<d, a1, a2>>]
Status(d, s, a1, a2) == [kind |-> "Status", f |-> <<d, s, a1, a2>>]

\* the packets handed to encode on its own
Packets ==
    {SetAnalogDigital(d, a1, a2) : d \in {0, 1, 3, DALL}, a1 \in {0, 100, DALL}, a2 \in {0, 100, DALL}}
        \cup {Status(d, st, a1, a2) : d \in {0, DALL}, st \in {0, 1}, a1 \in {0, 100}, a2 \in {0, DALL}}

\* an encode that writes the opcode of an all-zero frame as zero
encode_ZeroOpcode(p) ==
    IF p.kind = "SetAnalogDigital"
    THEN Ok(<<IF p.f = <<0, 0, 0>> THEN 0 ELSE 5, p.f[1], p.f[2], p.f[3], 0, 0, 0, 0>>)
    ELSE Err("InvalidParam")

\* an encode that gives the Status variant the all-zero command frame
encode_StatusAsReset(p) ==
    IF p.kind = "SetAnalogDigital"
    THEN Ok(<<5, p.f[1], p.f[2], p.f[3], 0, 0, 0, 0>>)
    ELSE Ok(<<5, 0, 0, 0, 0, 0, 0, 0>>)

encode(p) ==
    IF p.kind = "SetAnalogDigital"
    THEN Ok(<<5, p.f[1], p.f[2], p.f[3], 0, 0, 0, 0>>)
    ELSE Err("InvalidParam")

\* a decode that reads the analog values one byte late
decode_Shifted(d) ==
    IF Len(d) >= 5 THEN Ok(Status(d[1], d[2], d[4], d[5])) ELSE Panic("index out of bounds")

\* d[0..3] of a slice; indexing past the end of the slice panics
decode(d) ==
    IF Len(d) >= 4 THEN Ok(Status(d[1], d[2], d[3], d[4])) ELSE Panic("index out of bounds")

----------------------------------------------------------------------------
(* Discovery *)

\* the test of the CARD_ANY branch; && binds tighter than ||
MatchesAny(desc) ==
    \/ (desc.vid = VENDOR_ID /\ CARD_1 = desc.pid)
    \/ CARD_2 = desc.pid
    \/ CARD_3 = desc.pid
    \/ CARD_4 = desc.pid

MatchesAddr(desc, addr) == desc.vid = VENDOR_ID /\ addr = desc.pid

\* the for loop over ctx.devices(): the index of the device bound, 0 when the
\* loop ends without one, -1 when a device_descriptor() call fails first
RECURSIVE Scan(_, _, _)
Scan(devs, addr, i) ==
    IF i > Len(devs) THEN 0
    ELSE IF ~devs[i].descOk THEN -1
    ELSE IF addr = CARD_ANY
         THEN (IF MatchesAny(devs[i]) THEN i ELSE Scan(devs, addr, i + 1))
         ELSE (IF MatchesAddr(devs[i], addr) THEN i ELSE Scan(devs, addr, i + 1))

\* a Device, identified by what its descriptor reports
Device(devs, i) == [none |-> FALSE, vid |-> devs[i].vid, pid |-> devs[i].pid]

\* a default that starts with every digital output on
DefaultState_AllOn == [dig |-> 255, ana1 |-> 0, ana2 |-> 0]

DefaultState == [dig |-> 0, ana1 |-> 0, ana2 |-> 0]

new_addr(devs, addr) ==
    LET i == Scan(devs, addr, 1)
    IN  IF i > 0
        THEN [ret |-> Ok(Unit), created |-> TRUE, dev |-> Device(devs, i)]
        ELSE IF i = 0
        THEN [ret |-> Err("NotFound"), created |-> FALSE, dev |-> None]
        ELSE [ret |-> Err("Unable to get device description"), created |-> FALSE, dev |-> None]

----------------------------------------------------------------------------
(* Session internals *)

detach_and_claim(t) ==
    LET c1 == <<Call("kernel_driver_active", <<>>, t.kda)>>
        c2 == Append(c1, Call("detach_kernel_driver", <<>>, t.det))
        c3 == Append(c2, Call("claim_interface", <<>>, t.clm))
    IN  IF t.kda = "err" THEN [ret |-> Err("Usb"), calls |-> c1]
        ELSE IF t.det = "err" THEN [ret |-> Err("Usb"), calls |-> c2]
        ELSE IF t.clm = "err" THEN [ret |-> Err("Usb"), calls |-> c3]
        ELSE [ret |-> Ok(Unit), calls |-> c3]

\* write with the cache assigned before the transfer is attempted
write_StateFirst(p, t) ==
    IF hd = None
    THEN [ret |-> Err("NoDevice"), calls |-> <<>>, state |-> state, sent |-> sent]
    ELSE LET dc == detach_and_claim(t)
             data == encode(p)
             calls == Append(dc.calls, Call("write_interrupt", data.val, t.xfer))
             st == [dig |-> p.f[1], ana1 |-> p.f[2], ana2 |-> p.f[3]]
         IN  IF t.xfer = "err"
             THEN [ret |-> Err("Usb"), calls |-> calls, state |-> st, sent |-> sent]
             ELSE [ret |-> Ok(Unit), calls |-> calls, state |-> st, sent |-> data.val]

\* write without the match on self.hd
write_NoHandleTest(p, t) ==
    LET dc == detach_and_claim(t)
        data == encode(p)
        calls == Append(dc.calls, Call("write_interrupt", data.val, t.xfer))
    IN  IF t.xfer = "err"
        THEN [ret |-> Err("Usb"), calls |-> calls, state |-> state, sent |-> sent]
        ELSE [ret |-> Ok(Unit), calls |-> calls,
              state |-> [dig |-> p.f[1], ana1 |-> p.f[2], ana2 |-> p.f[3]],
              sent |-> data.val]

\* write that caches the analog values only after a successful transfer
write_CacheAnalogOnly(p, t) ==
    IF hd = None
    THEN [ret |-> Err("NoDevice"), calls |-> <<>>, state |-> state, sent |-> sent]
    ELSE LET dc == detach_and_claim(t)
             data == encode(p)
             calls == Append(dc.calls, Call("write_interrupt", data.val, t.xfer))
         IN  IF t.xfer = "err"
             THEN [ret |-> Err("Usb"), calls |-> calls, state |-> state, sent |-> sent]
             ELSE [ret |-> Ok(Unit), calls |-> calls,
                   state |-> [dig |-> state.dig, ana1 |-> p.f[2], ana2 |-> p.f[3]],
                   sent |-> data.val]

write(p, t) ==
    IF hd = None
    THEN [ret |-> Err("NoDevice"), calls |-> <<>>, state |-> state, sent |-> sent]
    ELSE LET dc == detach_and_claim(t)
             data == encode(p)
         IN  IF data.tag = "Err"
             THEN [ret |-> data, calls |-> dc.calls, state |-> state, sent |-> sent]
             ELSE LET calls == Append(dc.calls, Call("write_interrupt", data.val, t.xfer))
                  IN  IF t.xfer = "err"
                      THEN [ret |-> Err("Usb"), calls |-> calls, state |-> state, sent |-> sent]
                      ELSE IF p.kind = "SetAnalogDigital"
                      THEN [ret |-> Ok(Unit), calls |-> calls,
                            state |-> [dig |-> p.f[1], ana1 |-> p.f[2], ana2 |-> p.f[3]],
                            sent |-> data.val]
                      ELSE [ret |-> Err("InvalidParam"), calls |-> calls,
                            state |-> state, sent |-> data.val]

\* the [0u8; 8] buffer after read_interrupt has stored the first n bytes of frame
Buffer(frame, n) == [i \in 1..8 |-> IF i <= n THEN frame[i] ELSE 0]

\* a read that repeats a failed transfer once
read_Retry(t, frame, n) ==
    IF hd = None
    THEN [ret |-> Err("NoDevice"), calls |-> <<>>]
    ELSE LET dc == detach_and_claim(t)
             data == IF t.xfer = "err" THEN Buffer(frame, 0) ELSE Buffer(frame, n)
             calls == Append(dc.calls, ReadCall(data, t.xfer, IF t.xfer = "err" THEN 0 ELSE n))
         IN  IF t.xfer = "err"
             THEN [ret |-> Err("Usb"), calls |-> Append(calls, ReadCall(data, "err", 0))]
             ELSE [ret |-> decode(data), calls |-> calls]

read(t, frame, n) ==
    IF hd = None
    THEN [ret |-> Err("NoDevice"), calls |-> <<>>]
    ELSE LET dc == detach_and_claim(t)
             data == IF t.xfer = "err" THEN Buffer(frame, 0) ELSE Buffer(frame, n)
             calls == Append(dc.calls, ReadCall(data, t.xfer, IF t.xfer = "err" THEN 0 ELSE n))
         IN  IF t.xfer = "err"
             THEN [ret |-> Err("Usb"), calls |-> calls]
             ELSE [ret |-> decode(data), calls |-> calls]

----------------------------------------------------------------------------
(* Public operations: each yields the result and the fields it leaves behind *)

\* the DeviceHandle Device::open returns for device d
Handle(d) == [none |-> FALSE, of |-> d]

\* open without the early return for a session that holds a handle
open_Again(res) ==
    IF dev # None
    THEN [ret |-> TRUE, calls |-> <<Call("open", <<>>, res)>>,
          hd |-> IF res = "ok" THEN Handle(dev) ELSE None]
    ELSE [ret |-> FALSE, calls |-> <<>>, hd |-> hd]

\* res is the outcome of Device::open, consulted only when the call is made
open(res) ==
    IF hd # None
    THEN [ret |-> TRUE, calls |-> <<>>, hd |-> hd]
    ELSE IF dev # None
    THEN [ret |-> TRUE, calls |-> <<Call("open", <<>>, res)>>,
          hd |-> IF res = "ok" THEN Handle(dev) ELSE None]
    ELSE [ret |-> FALSE, calls |-> <<>>, hd |-> hd]

\* a reset that clears the digital outputs only
ResetPacket_DigitalOnly == SetAnalogDigital(0, state.ana1, state.ana2)

ResetPacket == SetAnalogDigital(0, 0, 0)

reset(t) == write(ResetPacket, t)

\* a digital write that sends zeroed analog values
DigitalPacket_ZeroAnalog(d) == SetAnalogDigital(d, 0, 0)

DigitalPacket(d) == SetAnalogDigital(d, state.ana1, state.ana2)

write_digital_out(d, t) == write(DigitalPacket(d), t)

\* a masked write that drops the mask
Masked_NoMask(d, mask) == d

Masked(d, mask) == BitAnd(d, mask)

write_digital_out_mask(d, mask, t) == write_digital_out(Masked(d, mask), t)

get_digital_out == from_bits(state.dig)[1]

get_digital_out_mask(d) == BitAnd(from_bits(state.dig)[1], d)

\* an analog write that sends zero on the channel it is not writing
AnalogPacket_ZeroOther(ch, v) ==
    IF ch = 1 THEN SetAnalogDigital(state.dig, v, 0)
    ELSE SetAnalogDigital(state.dig, 0, v)

AnalogPacket(ch, v) ==
    IF ch = 1 THEN SetAnalogDigital(state.dig, v, state.ana2)
    ELSE SetAnalogDigital(state.dig, state.ana1, v)

write_analog_out(ch, v, t) == write(AnalogPacket(ch, v), t)

get_analog_out1 == <<1, state.ana1>>

\* an accessor that reads the other channel
get_analog_out2_Channel1 == <<2, state.ana1>>

get_analog_out2 == <<2, state.ana2>>

read_digital_in(t, frame, n) ==
    LET r == read(t, frame, n)
    IN  IF r.ret.tag = "Err" THEN r
        ELSE IF r.ret.val.kind = "Status"
        THEN [ret |-> Ok(from_bits(r.ret.val.f[1])[1]), calls |-> r.calls]
        ELSE [ret |-> Err("InvalidParam"), calls |-> r.calls]

read_digital_in_mask(mask, t, frame, n) ==
    LET r == read_digital_in(t, frame, n)
    IN  IF r.ret.tag = "Err" THEN r
        ELSE [ret |-> Ok(BitAnd(r.ret.val, mask)), calls |-> r.calls]

read_analog_in1(t, frame, n) ==
    LET r == read(t, frame, n)
    IN  IF r.ret.tag = "Err" THEN r
        ELSE IF r.ret.val.kind = "Status"
        THEN [ret |-> Ok(<<1, r.ret.val.f[3]>>), calls |-> r.calls]
        ELSE [ret |-> Err("InvalidParam"), calls |-> r.calls]

read_analog_in2(t, frame, n) ==
    LET r == read(t, frame, n)
    IN  IF r.ret.tag = "Err" THEN r
        ELSE IF r.ret.val.kind = "Status"
        THEN [ret |-> Ok(<<2, r.ret.val.f[4]>>), calls |-> r.calls]
        ELSE [ret |-> Err("InvalidParam"), calls |-> r.calls]

----------------------------------------------------------------------------
(* State machine *)

\* the record kept of the operation just executed; pre and preHd are the
\* cached state and the handle field at the time of the call
Op(name, args, devs, ret, calls) ==
    [name |-> name, args |-> args, devs |-> devs, ret |-> ret, calls |-> calls,
     pre |-> state, preHd |-> hd]

Init ==
    /\ created = FALSE
    /\ dev = None
    /\ hd = None
    /\ state = DefaultState
    /\ sent = <<>>
    /\ op = Op("none", <<>>, <<>>, Ok(Unit), <<>>)

NewAddrFrom(E) ==
    /\ ~created
    /\ \E devs \in E, addr \in Addrs :
         LET r == new_addr(devs, addr)
         IN  /\ created' = r.created
             /\ dev' = r.dev
             /\ hd' = None
             /\ state' = DefaultState
             /\ op' = Op("new_addr", <<addr>>, devs, r.ret, <<>>)
    /\ UNCHANGED sent

NewAddr == NewAddrFrom(Attached)

Discover == NewAddrFrom(Enumerations)

OpenDev ==
    /\ created
    /\ \E res \in {"ok", "err"} :
         LET r == open(res)
         IN  /\ hd' = r.hd
             /\ op' = Op("open", <<>>, <<>>, r.ret, r.calls)
    /\ UNCHANGED <<created, dev, state, sent>>

\* a write operation that gives up the handle when it fails
DoWrite_DropHandle(name, args, r) ==
    /\ state' = r.state
    /\ sent' = r.sent
    /\ op' = Op(name, args, <<>>, r.ret, r.calls)
    /\ hd' = IF r.ret.tag = "Err" THEN None ELSE hd
    /\ UNCHANGED <<created, dev>>

\* the common shape of the four write operations
DoWrite(name, args, r) ==
    /\ state' = r.state
    /\ sent' = r.sent
    /\ op' = Op(name, args, <<>>, r.ret, r.calls)
    /\ UNCHANGED <<created, dev, hd>>

Reset ==
    /\ created
    /\ \E t \in Outcomes : DoWrite("reset", <<>>, reset(t))

WriteDigitalOut ==
    /\ created
    /\ \E d \in DigVals, t \in Outcomes :
         DoWrite("write_digital_out", <<d>>, write_digital_out(d, t))

WriteDigitalOutMask ==
    /\ created
    /\ \E d \in DigVals, mask \in MaskVals, t \in Outcomes :
         DoWrite("write_digital_out_mask", <<d, mask>>, write_digital_out_mask(d, mask, t))

WriteAnalogOut ==
    /\ created
    /\ \E ch \in {1, 2}, v \in AnaVals, t \in Outcomes :
         DoWrite("write_analog_out", <<ch, v>>, write_analog_out(ch, v, t))

\* the common shape of the operations that change no field
DoRead(name, args, ret, calls) ==
    /\ op' = Op(name, args, <<>>, ret, calls)
    /\ UNCHANGED <<created, dev, hd, state, sent>>

GetDigitalOut ==
    /\ created
    /\ DoRead("get_digital_out", <<>>, get_digital_out, <<>>)

GetDigitalOutMask ==
    /\ created
    /\ \E d \in MaskVals : DoRead("get_digital_out_mask", <<d>>, get_digital_out_mask(d), <<>>)

GetAnalogOut1 ==
    /\ created
    /\ DoRead("get_analog_out1", <<>>, get_analog_out1, <<>>)

GetAnalogOut2 ==
    /\ created
    /\ DoRead("get_analog_out2", <<>>, get_analog_out2, <<>>)

ReadDigitalIn ==
    /\ created
    /\ \E t \in Outcomes, frame \in InFrames, n \in InLens :
         LET r == read_digital_in(t, frame, n)
         IN  DoRead("read_digital_in", <<>>, r.ret, r.calls)

ReadDigitalInMask ==
    /\ created
    /\ \E mask \in MaskVals, t \in Outcomes, frame \in InFrames, n \in InLens :
         LET r == read_digital_in_mask(mask, t, frame, n)
         IN  DoRead("read_digital_in_mask", <<mask>>, r.ret, r.calls)

ReadAnalogIn1 ==
    /\ created
    /\ \E t \in Outcomes, frame \in InFrames, n \in InLens :
         LET r == read_analog_in1(t, frame, n)
         IN  DoRead("read_analog_in1", <<>>, r.ret, r.calls)

ReadAnalogIn2 ==
    /\ created
    /\ \E t \in Outcomes, frame \in InFrames, n \in InLens :
         LET r == read_analog_in2(t, frame, n)
         IN  DoRead("read_analog_in2", <<>>, r.ret, r.calls)

Next ==
    \/ NewAddr
    \/ OpenDev
    \/ Reset
    \/ WriteDigitalOut
    \/ WriteDigitalOutMask
    \/ WriteAnalogOut
    \/ GetDigitalOut
    \/ GetDigitalOutMask
    \/ GetAnalogOut1
    \/ GetAnalogOut2
    \/ ReadDigitalIn
    \/ ReadDigitalInMask
    \/ ReadAnalogIn1
    \/ ReadAnalogIn2

Spec == Init /\ [][Next]_vars

\* discovery alone, over every enumeration of up to MaxDevices devices
NextDiscovery == Discover

SpecDiscovery == Init /\ [][NextDiscovery]_vars

\* the codec alone: encode over Packets, decode over Slices
EncodePacket ==
    /\ \E p \in Packets : op' = Op("encode", <<p>>, <<>>, encode(p), <<>>)
    /\ UNCHANGED <<created, dev, hd, state, sent>>

DecodeSlice ==
    /\ \E d \in Slices : op' = Op("decode", <<d>>, <<>>, decode(d), <<>>)
    /\ UNCHANGED <<created, dev, hd, state, sent>>

NextCodec == EncodePacket \/ DecodeSlice

SpecCodec == Init /\ [][NextCodec]_vars

\* the private write on its own, handed any packet, on a session that may
\* have been opened; encode beside it
WritePackets ==
    {SetAnalogDigital(DALL, 100, DALL), SetAnalogDigital(1, 0, 0),
     Status(DALL, 1, 100, 0), Status(0, 0, 0, DALL)}

WritePacket ==
    /\ created
    /\ \E p \in WritePackets, t \in Outcomes :
         LET r == write(p, t)
         IN  /\ state' = r.state
             /\ sent' = r.sent
             /\ op' = Op("write", <<p>>, <<>>, r.ret, r.calls)
    /\ UNCHANGED <<created, dev, hd>>

NextWrite == NewAddr \/ OpenDev \/ WritePacket \/ EncodePacket

SpecWrite == Init /\ [][NextWrite]_vars

TypeOK ==
    /\ created \in BOOLEAN
    /\ state.dig \in 0..255 /\ state.ana1 \in 0..255 /\ state.ana2 \in 0..255

----------------------------------------------------------------------------
(* Vocabulary of the properties *)

WriteOps == {"reset", "write_digital_out", "write_digital_out_mask", "write_analog_out"}
ReadOps == {"read_digital_in", "read_digital_in_mask", "read_analog_in1", "read_analog_in2"}

Succeeded == op.ret.tag = "Ok"
Failed == op.ret.tag = "Err"

\* the calls of the operation just executed that went to transport function fn
CallsTo(fn) == {i \in 1..Len(op.calls) : op.calls[i].fn = fn}

\* the operation made exactly one outbound transfer, and its frame was f
SentExactly(f) ==
    /\ Cardinality(CallsTo("write_interrupt")) = 1
    /\ \A i \in CallsTo("write_interrupt") : op.calls[i].data = f

OutboundFailed == \E i \in CallsTo("write_interrupt") : op.calls[i].res = "err"

Cache(d, a1, a2) == [dig |-> d, ana1 |-> a1, ana2 |-> a2]

----------------------------------------------------------------------------
(* C1: a write operation whose outbound transfer fails returns an error and
   leaves the cached digital-out, analog-1 and analog-2 values as they were
   before the call, so get_digital_out() still returns the value of the last
   successful write. *)
C1_FailedWriteKeepsCache ==
    (op.name \in WriteOps /\ OutboundFailed)
        => /\ Failed
           /\ state = op.pre
           /\ get_digital_out = op.pre.dig

\* the second of two writes failed: the cache holds the first write's value
C1_Witness ==
    /\ op.name = "write_digital_out"
    /\ OutboundFailed
    /\ op.pre.dig = 1
    /\ op.args[1] = DALL

(* C2: every read or write operation invoked on a session that holds no handle
   (no open() has succeeded) fails with the not-open error NoDevice, makes no
   transport call and leaves the cached state unchanged. *)
C2_NotOpenFailsWithoutTransport ==
    (op.name \in WriteOps \cup ReadOps /\ op.preHd = None)
        => /\ op.ret = Err("NoDevice")
           /\ op.calls = <<>>
           /\ state = op.pre
           /\ hd = None

C2_Witness ==
    /\ created
    /\ op.name = "write_analog_out"
    /\ op.preHd = None

(* C3: open() returns false when the transport's open call fails on an Unopened
   session, which then stays Unopened; whenever open() returns true the session
   holds a device handle. *)
C3_OpenReportsFailure ==
    op.name = "open"
        => /\ (\E i \in CallsTo("open") : op.calls[i].res = "err")
                => (op.ret = FALSE /\ hd = None)
           /\ op.ret = TRUE => hd # None

(* C4: open() on a session that already holds a handle returns true, makes no
   transport call, keeps the same handle and leaves the cached output state
   unchanged. *)
C4_OpenIdempotent ==
    (op.name = "open" /\ op.preHd # None)
        => /\ op.ret = TRUE
           /\ op.calls = <<>>
           /\ hd = op.preHd
           /\ state = op.pre

\* a second open() on a session whose outputs have been written
C4_Witness ==
    /\ op.name = "open"
    /\ op.preHd # None
    /\ op.pre = Cache(3, 255, 0)

(* C5: write_analog_out on one channel sends one frame carrying the new value
   for that channel together with the cached digital mask and the cached value
   of the other channel; on success only the written channel's cached value
   changes, so the accessors report the new value on the written channel and
   the earlier value on the other. *)
C5_AnalogWriteKeepsOthers ==
    (op.name = "write_analog_out" /\ op.preHd # None)
        => LET ch == op.args[1]
               v == op.args[2]
               a1 == IF ch = 1 THEN v ELSE op.pre.ana1
               a2 == IF ch = 2 THEN v ELSE op.pre.ana2
           IN  /\ SentExactly(<<5, op.pre.dig, a1, a2, 0, 0, 0, 0>>)
               /\ Succeeded
                    => /\ state = Cache(op.pre.dig, a1, a2)
                       /\ get_analog_out1 = <<1, a1>>
                       /\ get_analog_out2 = <<2, a2>>

\* A2(0) written after A1(255), over a digital mask of 3
C5_Witness ==
    /\ op.name = "write_analog_out"
    /\ Succeeded
    /\ op.args = <<2, 0>>
    /\ op.pre = Cache(3, 255, 255)
    /\ state = Cache(3, 255, 0)

(* C6: write_digital_out(d) sends one frame carrying d together with the
   analog-1 and analog-2 values cached at the time of the call; on success
   get_digital_out() = d and the cached analog values are those from before
   the call. *)
C6_DigitalWriteKeepsAnalog ==
    (op.name = "write_digital_out" /\ op.preHd # None)
        => LET d == op.args[1]
           IN  /\ SentExactly(<<5, d, op.pre.ana1, op.pre.ana2, 0, 0, 0, 0>>)
               /\ Succeeded
                    => /\ get_digital_out = d
                       /\ state.ana1 = op.pre.ana1
                       /\ state.ana2 = op.pre.ana2

C6_Witness ==
    /\ op.name = "write_digital_out"
    /\ Succeeded
    /\ op.args = <<1>>
    /\ op.pre = Cache(255, 255, 0)
    /\ state = Cache(1, 255, 0)

(* C7: write_digital_out_mask(d, selector) sends the frame and leaves the cache
   that write_digital_out(d AND selector) would: each bit of the mask sent is on
   exactly when it is on in both d and selector, whatever the cached digital
   mask was, the analog bytes are the cached ones, and after a successful
   write_digital_out_mask(DALL, m) get_digital_out() = m. *)
C7_MaskedWriteIsAnd ==
    (op.name = "write_digital_out_mask" /\ op.preHd # None)
        => LET d == op.args[1]
               sel == op.args[2]
           IN  /\ Cardinality(CallsTo("write_interrupt")) = 1
               /\ \A i \in CallsTo("write_interrupt") :
                    LET f == op.calls[i].data
                    IN  /\ \A b \in 0..7 : Bit(f[2], b) = Bit(d, b) * Bit(sel, b)
                        /\ f[2] \in 0..255
                        /\ f = <<5, f[2], op.pre.ana1, op.pre.ana2, 0, 0, 0, 0>>
                        /\ Succeeded => state = Cache(f[2], op.pre.ana1, op.pre.ana2)
               /\ (Succeeded /\ d = DALL) => get_digital_out = sel

\* bits outside the selector are forced off although they were on in the cache
C7_Witness ==
    /\ op.name = "write_digital_out_mask"
    /\ Succeeded
    /\ op.args = <<DALL, 3>>
    /\ op.pre.dig = DALL
    /\ state.dig = 3

(* C8: after a successful write_digital_out_mask(d, mask), every cached
   digital-out bit that is off in mask has the value it had before the call. *)
C8_MaskedWriteKeepsUnmaskedBits ==
    (op.name = "write_digital_out_mask" /\ Succeeded)
        => \A b \in 0..7 :
             Bit(op.args[2], b) = 0 => Bit(state.dig, b) = Bit(op.pre.dig, b)

(* C9: a successful reset() makes exactly one outbound transfer, whose frame is
   [5,0,0,0,0,0,0,0], and afterwards get_digital_out() is the all-off value and
   get_analog_out1() / get_analog_out2() are A1(0) / A2(0). *)
C9_ResetZeroesInOneFrame ==
    (op.name = "reset" /\ Succeeded)
        => /\ SentExactly(<<5, 0, 0, 0, 0, 0, 0, 0>>)
           /\ get_digital_out = DZERO
           /\ get_analog_out1 = <<1, 0>>
           /\ get_analog_out2 = <<2, 0>>

C9_Witness ==
    /\ op.name = "reset"
    /\ Succeeded
    /\ op.pre = Cache(255, 255, 255)

(* C10: discovery with address 'any', over an enumeration in which several
   devices are K8055 cards, binds the card with the lowest product id present. *)
IsCard(desc) == desc.vid = VENDOR_ID /\ desc.pid \in {CARD_1, CARD_2, CARD_3, CARD_4}

CardsIn(devs) == {i \in 1..Len(devs) : IsCard(devs[i])}

C10_AnyBindsLowestAddress ==
    (/\ op.name = "new_addr"
     /\ op.args = <<CARD_ANY>>
     /\ Cardinality(CardsIn(op.devs)) >= 2
     /\ \A i \in 1..Len(op.devs) : op.devs[i].descOk)
        => /\ Succeeded
           /\ dev # None
           /\ dev.vid = VENDOR_ID
           /\ \A i \in CardsIn(op.devs) : dev.pid <= op.devs[i].pid

(* C11: new_addr returns a session only for a device whose vendor id is 0x10CF
   and whose product id is the requested address (for 'any': one of
   0x5500..0x5503), and fails with the not-found error when no enumerated
   device is such a device. *)
Wanted(desc, addr) ==
    /\ desc.vid = VENDOR_ID
    /\ IF addr = CARD_ANY THEN desc.pid \in {CARD_1, CARD_2, CARD_3, CARD_4}
       ELSE desc.pid = addr

C11_BindsOnlyOnVendorAndProduct ==
    (/\ op.name = "new_addr"
     /\ \A i \in 1..Len(op.devs) : op.devs[i].descOk)
        => LET addr == op.args[1]
           IN  /\ Succeeded => (dev # None /\ Wanted(dev, addr))
               /\ (\A i \in 1..Len(op.devs) : ~Wanted(op.devs[i], addr))
                    => (op.ret = Err("NotFound") /\ ~created)

(* C12: in every read or write operation on an Open session, claim_interface
   is called before the interrupt transfer of that operation, and the kernel
   driver is detached before it when kernel_driver_active reports one. *)
Transfers == CallsTo("write_interrupt") \cup CallsTo("read_interrupt")

C12_ClaimBeforeTransfer ==
    (op.name \in WriteOps \cup ReadOps /\ op.preHd # None)
        => /\ Transfers # {}
           /\ \A j \in Transfers :
                /\ \E i \in CallsTo("claim_interface") : i < j
                /\ (\E k \in CallsTo("kernel_driver_active") : op.calls[k].res = "true")
                     => \E i \in CallsTo("detach_kernel_driver") : i < j

(* C13: a read or write operation within which a transport call failed (the
   kernel-driver query or detach, claim_interface, or the interrupt transfer)
   returns an error. *)
C13_TransportFailureSurfaced ==
    (/\ op.name \in WriteOps \cup ReadOps
     /\ \E i \in 1..Len(op.calls) : op.calls[i].res = "err")
        => Failed

(* C14: a read operation whose inbound transfer fails, or delivers fewer than
   4 bytes, returns an error and no value. *)
C14_ShortReadFails ==
    (/\ op.name \in ReadOps
     /\ \E i \in CallsTo("read_interrupt") :
          op.calls[i].res = "err" \/ op.calls[i].n < 4)
        => Failed

(* C15: a read operation whose inbound transfer succeeds and delivers a full
   8-byte frame [d, s, a1, a2, r1, r2, r3, r4] returns d for read_digital_in,
   d AND sel for read_digital_in_mask(sel), A1(a1) for read_analog_in1 and
   A2(a2) for read_analog_in2, whatever s and r1..r4 are. *)
FullFrames == {i \in CallsTo("read_interrupt") : op.calls[i].res = "ok" /\ op.calls[i].n = 8}

C15_FullFrameDecoded ==
    (op.name \in ReadOps /\ FullFrames # {})
        => \A i \in FullFrames :
             LET f == op.calls[i].data
             IN  /\ Len(f) = 8
                 /\ op.name = "read_digital_in" => op.ret = Ok(f[1])
                 /\ op.name = "read_digital_in_mask"
                      => /\ Succeeded
                         /\ \A b \in 0..7 : Bit(op.ret.val, b) = Bit(f[1], b) * Bit(op.args[1], b)
                         /\ op.ret.val \in 0..255
                 /\ op.name = "read_analog_in1" => op.ret = Ok(<<1, f[3]>>)
                 /\ op.name = "read_analog_in2" => op.ret = Ok(<<2, f[4]>>)

\* analog input 2 read from a frame whose status and reserved bytes are not zero
C15_Witness ==
    /\ op.name = "read_analog_in2"
    /\ FullFrames # {}
    /\ \A i \in FullFrames : op.calls[i].data = <<3, 1, 100, 255, 9, 9, 9, 9>>
    /\ op.ret = Ok(<<2, 255>>)

(* C16: encode of SetAnalogDigital(d, a1, a2) is exactly the 8 bytes
   [5, d, a1, a2, 0, 0, 0, 0], and every frame a write operation hands to
   write_interrupt has this form: opcode 5, three bytes in 0..255 that are the
   values the operation sets, four trailing zero bytes. *)
ByteSample == {0, 1, 100, DALL}

IsOutboundFrame(f) ==
    /\ Len(f) = 8
    /\ f[1] = 5
    /\ f[2] \in 0..255 /\ f[3] \in 0..255 /\ f[4] \in 0..255
    /\ f[5] = 0 /\ f[6] = 0 /\ f[7] = 0 /\ f[8] = 0

C16_OutboundFrameForm ==
    /\ \A d \in ByteSample, a1 \in ByteSample, a2 \in ByteSample :
         encode(SetAnalogDigital(d, a1, a2)) = Ok(<<5, d, a1, a2, 0, 0, 0, 0>>)
    /\ \A i \in CallsTo("write_interrupt") :
         /\ op.name \in WriteOps
         /\ IsOutboundFrame(op.calls[i].data)
         /\ Succeeded => op.calls[i].data = <<5, state.dig, state.ana1, state.ana2, 0, 0, 0, 0>>
    /\ sent # <<>> => IsOutboundFrame(sent)

\* the all-zero command of reset, handed to the transport
C16_Witness ==
    /\ op.name = "reset"
    /\ CallsTo("write_interrupt") # {}
    /\ \A i \in CallsTo("write_interrupt") : op.calls[i].data = <<5, 0, 0, 0, 0, 0, 0, 0>>
    /\ op.pre = Cache(255, 255, 255)

(* C17: decode applied to a slice of 3 bytes or fewer returns the error value
   ShortFrame; it does not abort. *)
C17_ShortDecodeFails ==
    (op.name = "decode" /\ Len(op.args[1]) <= 3)
        => op.ret = Err("ShortFrame")

(* C18: no operation retries: a read or write operation issues at most one
   interrupt transfer; on a session that holds a handle a write operation
   issues exactly one outbound and no inbound transfer, a read operation
   exactly one inbound and no outbound transfer; and when that transfer fails
   the operation returns its error. *)
C18_NoRetry ==
    op.name \in WriteOps \cup ReadOps
        => /\ Cardinality(Transfers) <= 1
           /\ (op.preHd # None /\ op.name \in WriteOps)
                => /\ Cardinality(CallsTo("write_interrupt")) = 1
                   /\ CallsTo("read_interrupt") = {}
           /\ (op.preHd # None /\ op.name \in ReadOps)
                => /\ Cardinality(CallsTo("read_interrupt")) = 1
                   /\ CallsTo("write_interrupt") = {}
           /\ (\E i \in Transfers : op.calls[i].res = "err")
                => /\ op.ret = Err("Usb")
                   /\ op.calls[Len(op.calls)].res = "err"

\* an inbound transfer that failed, after a claim step that went through
C18_Witness ==
    /\ op.name = "read_analog_in1"
    /\ op.preHd # None
    /\ \E i \in CallsTo("read_interrupt") : op.calls[i].res = "err"
    /\ \E i \in CallsTo("claim_interface") : op.calls[i].res = "ok"

(* C19: get_digital_out, get_digital_out_mask, get_analog_out1 and
   get_analog_out2 make no transport call and change neither the cache nor the
   handle, on a session with or without a handle; they return the cached
   digital mask, the cached digital mask AND the selector, A1(cached analog-1)
   and A2(cached analog-2). *)
Accessors == {"get_digital_out", "get_digital_out_mask", "get_analog_out1", "get_analog_out2"}

C19_AccessorsPure ==
    op.name \in Accessors
        => /\ op.calls = <<>>
           /\ state = op.pre
           /\ hd = op.preHd
           /\ op.name = "get_digital_out" => op.ret = state.dig
           /\ op.name = "get_digital_out_mask"
                => /\ op.ret \in 0..255
                   /\ \A b \in 0..7 : Bit(op.ret, b) = Bit(state.dig, b) * Bit(op.args[1], b)
           /\ op.name = "get_analog_out1" => op.ret = <<1, state.ana1>>
           /\ op.name = "get_analog_out2" => op.ret = <<2, state.ana2>>

\* channel 2 read back on an Open session whose two analog values differ
C19_Witness ==
    /\ op.name = "get_analog_out2"
    /\ op.preHd # None
    /\ state = Cache(DALL, 255, 0)
    /\ op.ret = <<2, 0>>

(* C20: new_addr makes no open, claim or transfer call and leaves no handle;
   the session it returns has cached digital-out all off and cached analog-1
   and analog-2 equal to 0, and the accessors report these values until the
   first successful write. *)
C20_DiscoveryLeavesUnopenedZeroed ==
    /\ op.name = "new_addr"
         => /\ op.calls = <<>>
            /\ hd = None
            /\ Succeeded <=> created
    /\ (created /\ sent = <<>>)
         => /\ state = Cache(0, 0, 0)
            /\ get_digital_out = DZERO
            /\ get_analog_out1 = <<1, 0>>
            /\ get_analog_out2 = <<2, 0>>

\* an accessor called on the opened session before any write has succeeded
C20_Witness ==
    /\ created
    /\ hd # None
    /\ sent = <<>>
    /\ op.name = "get_digital_out"
    /\ op.ret = DZERO

(* C21: in every reachable state the cached (digital-out, analog-1, analog-2)
   triple is bytes 1..3 of the most recent outbound frame whose transfer
   succeeded, or (0, 0, 0) if none has succeeded yet; and a step that is not a
   successful write (open, inbound read, accessor, failed write) leaves the
   cache as it was. *)
C21_CacheIsLastSentFrame ==
    /\ state = IF sent = <<>> THEN Cache(0, 0, 0) ELSE Cache(sent[2], sent[3], sent[4])
    /\ (op.name \in WriteOps /\ Succeeded)
         => /\ Cardinality(CallsTo("write_interrupt")) = 1
            /\ \A i \in CallsTo("write_interrupt") : op.calls[i].data = sent
    /\ (op.name \notin {"none", "new_addr"} /\ ~(op.name \in WriteOps /\ Succeeded))
         => state = op.pre

\* a write that failed after an earlier write had set all three values
C21_Witness ==
    /\ op.name = "write_digital_out"
    /\ OutboundFailed
    /\ op.args = <<1>>
    /\ sent = <<5, 255, 255, 255, 0, 0, 0, 0>>
    /\ state = Cache(255, 255, 255)

(* C22: a session that holds a handle keeps that same handle through every
   operation, also through a read or write whose claim step or transfer
   fails; so a read or write on a session that has been opened always reaches
   the transport with its transfer. *)
C22_OpenStaysOpen ==
    op.preHd # None
        => /\ hd = op.preHd
           /\ op.name \in WriteOps \cup ReadOps
                => /\ Transfers # {}
                   /\ op.ret # Err("NoDevice")

\* a write whose claim step and transfer both failed, with the handle still held
C22_Witness ==
    /\ op.name = "write_analog_out"
    /\ op.preHd # None
    /\ hd # None
    /\ OutboundFailed
    /\ \E i \in CallsTo("detach_kernel_driver") : op.calls[i].res = "err"

(* C23: encode of a packet that is not SetAnalogDigital (the Status variant)
   fails with InvalidParam, the error for a command without a wire form; the
   private write handed such a packet fails, calls no write_interrupt and
   leaves the cached state as it was. *)
C23_StatusNotEncodable ==
    /\ (op.name = "encode" /\ op.args[1].kind # "SetAnalogDigital")
         => op.ret = Err("InvalidParam")
    /\ (op.name = "write" /\ op.args[1].kind # "SetAnalogDigital")
         => /\ Failed
            /\ op.preHd # None => op.ret = Err("InvalidParam")
            /\ CallsTo("write_interrupt") = {}
            /\ state = op.pre

\* a Status packet handed to write on an opened session whose outputs are set
C23_Witness ==
    /\ op.name = "write"
    /\ op.args[1].kind = "Status"
    /\ op.preHd # None
    /\ op.pre = Cache(DALL, 100, DALL)
    /\ op.ret = Err("InvalidParam")

====
